---------------------------- MODULE Spec2Model ----------------------------
(***************************************************************************)
(* rbxImageRenderProxy (src/index.js): an Express server that turns images  *)
(* and rendered web pages into pixel matrices and clickable regions.        *)
(*                                                                         *)
(* The module models                                                       *)
(*   - the Semaphore that guards every /image* and /html* handler,          *)
(*   - the seven route handlers, one action per continuation between two   *)
(*     awaits of the handler,                                              *)
(*   - the pure functions validateHttpSrc, isUrl, getImageMetadata,         *)
(*     getImagePixels, and collectLinks with its frameset track resolver.   *)
(*                                                                         *)
(* Scheduling.  A handler runs without interruption up to its next await.   *)
(* The continuation of `await new Promise(...)` in Semaphore.acquire is a   *)
(* promise job; promise jobs run in the order in which their promises were  *)
(* resolved (variable jobs).  Request callbacks and the completions of      *)
(* fetch, sharp and puppeteer calls are host events; the source does not    *)
(* order them relative to a pending promise job, and neither does Next.     *)
(***************************************************************************)
EXTENDS Integers, Sequences, FiniteSets, TLC

(***************************************************************************)
(* Configuration (src/index.js:19-21) and bounds of the model.             *)
(***************************************************************************)
MAX_CONCURRENT == 4

MAX_IMAGE_PIXELS == 4000000

\* Number of requests the server receives in one behaviour.
NumReq == 6

Req == 1..NumReq

\* Requests whose route and src range over every case; the other requests
\* are GET /image/converttopng with the default src, whose fetch fails.
Varied == {1}

(***************************************************************************)
(* Strings are sequences of one-character strings.                          *)
(***************************************************************************)
Missing == <<"undefined">>

ExamplePng == <<"e", "x", "a", "m", "p", "l", "e", ".", "p", "n", "g">>

PublicPage == <<"h", "t", "t", "p", "s", ":", "/", "/", "e", "x", "a", "m", "p", "l", "e", ".", "c", "o", "m", "/", "p", "a", "g", "e">>

LoopbackX == <<"h", "t", "t", "p", ":", "/", "/", "1", "2", "7", ".", "0", ".", "0", ".", "1", "/", "x">>

FtpExample == <<"f", "t", "p", ":", "/", "/", "e", "x", "a", "m", "p", "l", "e", ".", "c", "o", "m">>

\* The values of req.query.src the varied requests carry.
QuerySrc == {Missing, ExamplePng, PublicPage, LoopbackX, FtpExample}

StartsWith(s, p) ==
  /\ Len(s) >= Len(p)
  /\ SubSeq(s, 1, Len(p)) = p

\* Position of the first occurrence of character c in s at or after i
\* (Len(s) + 1 when there is none).
RECURSIVE Find(_, _, _)
Find(s, c, i) ==
  IF i > Len(s) THEN Len(s) + 1
  ELSE IF s[i] = c THEN i
  ELSE Find(s, c, i + 1)

Upper == <<"A", "B", "C", "D", "E", "F", "G", "H", "I", "J", "K", "L", "M", "N", "O", "P", "Q", "R", "S", "T", "U", "V", "W", "X", "Y", "Z">>

Lower == <<"a", "b", "c", "d", "e", "f", "g", "h", "i", "j", "k", "l", "m", "n", "o", "p", "q", "r", "s", "t", "u", "v", "w", "x", "y", "z">>

UpperSet == {Upper[i] : i \in 1..26}

UpperToLower == [c \in UpperSet |-> Lower[CHOOSE i \in 1..26 : Upper[i] = c]]

ToLowerChar(c) == IF c \in UpperSet THEN UpperToLower[c] ELSE c

ToLower(s) == [i \in 1..Len(s) |-> ToLowerChar(s[i])]

LetterSet == UpperSet \cup {Lower[i] : i \in 1..26}

IsAlpha(c) == c \in LetterSet

(***************************************************************************)
(* new URL(src) for absolute URLs "scheme://host[:port][/path]": the       *)
(* scheme is the text before the first ":", lower-cased, and must start     *)
(* with a letter; the hostname is the lower-cased text between "//" and the *)
(* next "/", ":", "?" or "#".  Anything else makes the constructor throw     *)
(* (ok = FALSE).                                                           *)
(***************************************************************************)
Min(S) == CHOOSE e \in S : \A f \in S : e <= f

HostEnd(s, from) == Min({Find(s, c, from) : c \in {"/", ":", "?", "#"}})

URL(src) ==
  LET colon == Find(src, ":", 1)
      from  == colon + 3
      end   == HostEnd(src, from)
  IN  IF /\ src # Missing
         /\ colon <= Len(src)
         /\ colon > 1
         /\ IsAlpha(src[1])
         /\ SubSeq(src, colon + 1, colon + 2) = <<"/", "/">>
         /\ end > from
      THEN [ok |-> TRUE,
            protocol |-> ToLower(SubSeq(src, 1, colon)),
            hostname |-> ToLower(SubSeq(src, from, end - 1))]
      ELSE [ok |-> FALSE, protocol |-> <<>>, hostname |-> <<>>]

HttpProtocols == {<<"h", "t", "t", "p", ":">>, <<"h", "t", "t", "p", "s", ":">>}

\* /^127\.|^10\.|^192\.168\.|^169\.254\./
PrivatePrefixes ==
  {<<"1", "2", "7", ".">>,
   <<"1", "0", ".">>,
   <<"1", "9", "2", ".", "1", "6", "8", ".">>,
   <<"1", "6", "9", ".", "2", "5", "4", ".">>}

Localhost == <<"l", "o", "c", "a", "l", "h", "o", "s", "t">>

\* p occurs somewhere in s.
Contains(s, p) == \E i \in 1..Len(s) : StartsWith(SubSeq(s, i, Len(s)), p)

\* validateHttpSrc with the regular expression written without its ^ anchors.
validateHttpSrcUnanchored(src) ==
  LET u == URL(src)
  IN  IF ~u.ok THEN "Invalid URL"
      ELSE IF u.protocol \notin HttpProtocols THEN "Invalid protocol"
      ELSE IF \/ \E p \in PrivatePrefixes : Contains(u.hostname, p)
              \/ u.hostname = Localhost
           THEN "Forbidden host"
      ELSE "ok"

\* validateHttpSrc(src): "ok" when it returns u, else the message of the
\* error it throws ("Invalid URL" is the TypeError of new URL).
validateHttpSrc(src) ==
  LET u == URL(src)
  IN  IF ~u.ok THEN "Invalid URL"
      ELSE IF u.protocol \notin HttpProtocols THEN "Invalid protocol"
      ELSE IF \/ \E p \in PrivatePrefixes : StartsWith(u.hostname, p)
              \/ u.hostname = Localhost
           THEN "Forbidden host"
      ELSE "ok"

isUrl(s) ==
  LET u == URL(s)
  IN  u.ok /\ u.protocol \in HttpProtocols


(***************************************************************************)
(* State of the server.                                                    *)
(*   current, queue  imageSemaphore.current and imageSemaphore.queue (the   *)
(*                   resolvers are named by the request that waits)         *)
(*   jobs            resumptions of acquire() whose promise was resolved,   *)
(*                   in the order of the resolve calls                      *)
(*   pc              where each request's handler is suspended              *)
(*   route, src      the request's path and the handler's `src`             *)
(*   browser         the puppeteer browser of an /html* request             *)
(*   err             the error a render function carries through finally    *)
(*   buf             [width, height] of the PNG buffer the handler holds    *)
(*   resp            the response sent (status 0: none yet)                 *)
(*   fetched         the arguments of the fetch() calls made so far         *)
(*   log             per request, the calls it has made, in order, and the  *)
(*                   message of the error its catch block caught            *)
(*   pushed          the requests that entered queue, in the order of the   *)
(*                   queue.push calls                                       *)
(* A call of one of the pure functions of the program, outside any request: *)
(*   fn, arg, res    the function called, its argument, and its result      *)
(*                   (Pending until the call returns)                       *)
(***************************************************************************)
VARIABLES current, queue, jobs, pc, route, src, browser, err, buf, resp,
          fetched, log, pushed, fn, arg, res

server == <<current, queue, jobs, pc, route, src, browser, err, buf, resp,
            fetched, log, pushed>>

pure == <<fn, arg, res>>

vars == <<server, pure>>

Pending == [done |-> FALSE, value |-> <<>>]

Returned(v) == [done |-> TRUE, value |-> v]

\* No pure call is under way.
NoCall ==
  /\ fn = ""
  /\ arg = <<>>
  /\ res = Pending

ImageRoutes == {"/image", "/image/size", "/image/converttopng"}

HtmlRoutes == {"/html", "/html/size", "/html/colors", "/html/converttopng"}

Routes == ImageRoutes \cup HtmlRoutes

\* Handlers that call getImageMetadata, and those that call getImagePixels.
MetadataRoutes == {"/image", "/image/size", "/html", "/html/size", "/html/colors"}

PixelRoutes == {"/image", "/html", "/html/colors"}

\* [width, height] of the PNG buffers sharp produces in the model.
NoBuf == [width |-> 0, height |-> 0]

Buffers ==
  {[width |-> 1, height |-> 1],
   [width |-> 2000, height |-> 2000],
   [width |-> 2001, height |-> 2000]}

NoResp == [status |-> 0, body |-> "", message |-> "", size |-> <<>>, colors |-> <<>>]

\* How a handler sends its answer: the converttopng handlers use
\* res.type('png').send(buffer) and res.status(400).send(text), the other
\* handlers res.json(...).
bodyOf(rt, status) ==
  IF rt \in {"/image/converttopng", "/html/converttopng"}
  THEN IF status = 200 THEN "png" ELSE "text"
  ELSE "json"

InitServer ==
  /\ current = 0
  /\ queue = <<>>
  /\ jobs = <<>>
  /\ pc = [r \in Req |-> "new"]
  /\ route = [r \in Req |-> ""]
  /\ src = [r \in Req |-> Missing]
  /\ browser = [r \in Req |-> "none"]
  /\ err = [r \in Req |-> ""]
  /\ buf = [r \in Req |-> NoBuf]
  /\ resp = [r \in Req |-> NoResp]
  /\ fetched = {}
  /\ log = [r \in Req |-> <<>>]
  /\ pushed = <<>>

(***************************************************************************)
(* Semaphore (src/index.js:37-59).                                         *)
(***************************************************************************)
\* acquire() up to its return or its await.
acquire(r) ==
  IF current < MAX_CONCURRENT
  THEN /\ current' = current + 1
       /\ pc' = [pc EXCEPT ![r] = "acquired"]
       /\ UNCHANGED queue
  ELSE /\ queue' = Append(queue, r)
       /\ pc' = [pc EXCEPT ![r] = "queued"]
       /\ UNCHANGED current

\* release() with queue.pop() in place of queue.shift().
releaseLifo ==
  /\ current' = current - 1
  /\ IF Len(queue) > 0
     THEN /\ queue' = SubSeq(queue, 1, Len(queue) - 1)
          /\ jobs' = Append(jobs, queue[Len(queue)])
     ELSE UNCHANGED <<queue, jobs>>

\* release() that only decrements and wakes nobody.
releaseNoWake ==
  /\ current' = current - 1
  /\ UNCHANGED <<queue, jobs>>

\* release(): queue.shift()() resolves the oldest waiter's promise, which
\* schedules that waiter's resumption.
release ==
  /\ current' = current - 1
  /\ IF Len(queue) > 0
     THEN /\ queue' = Tail(queue)
          /\ jobs' = Append(jobs, Head(queue))
     ELSE UNCHANGED <<queue, jobs>>

\* The resumption of acquire() after its await: this.current++, and the
\* handler goes on after `await imageSemaphore.acquire()`.
Resume ==
  /\ Len(jobs) > 0
  /\ LET r == Head(jobs)
     IN  /\ jobs' = Tail(jobs)
         /\ current' = current + 1
         /\ pc' = [pc EXCEPT ![r] = "acquired"]
         /\ log' = [log EXCEPT ![r] = Append(@, "acquire")]
  /\ UNCHANGED <<queue, route, src, browser, err, buf, resp, fetched, pushed, pure>>

(***************************************************************************)
(* The end of a handler: the response, then `finally` releases the gate.   *)
(***************************************************************************)
Respond(r, events, status, message, size, colors) ==
  /\ resp' = [resp EXCEPT ![r] =
                [status |-> status, body |-> bodyOf(route[r], status),
                 message |-> message, size |-> size, colors |-> colors]]
  /\ pc' = [pc EXCEPT ![r] = "done"]
  /\ log' = [log EXCEPT ![r] = @ \o events \o <<"respond", "release">>]
  /\ release

\* A catch block that answers and returns, with no finally after it.
CatchNoRelease(r, events, e) ==
  /\ resp' = [resp EXCEPT ![r] =
                [status |-> 400, body |-> bodyOf(route[r], 400),
                 message |-> e, size |-> <<>>, colors |-> <<>>]]
  /\ pc' = [pc EXCEPT ![r] = "done"]
  /\ log' = [log EXCEPT ![r] = @ \o events \o <<e, "respond">>]
  /\ UNCHANGED <<current, queue, jobs>>

\* The catch block of the handler of request r, entered with error e: the
\* log keeps the message of the error caught.
Catch(r, events, e) ==
  Respond(r, events \o <<e>>, 400,
          IF route[r] = "/image/converttopng" THEN "Invalid image"
          ELSE IF route[r] = "/html/converttopng" THEN "Failed to render html"
          ELSE e,
          <<>>, <<>>)

(***************************************************************************)
(* Arrival of a request: the handler up to `await imageSemaphore.acquire()`*)
(* (or up to the early return of an /html* handler without src).           *)
(***************************************************************************)
RoutesOf(r) == IF r \in Varied THEN Routes ELSE {"/image/converttopng"}

QueryOf(r) == IF r \in Varied THEN QuerySrc ELSE {ExamplePng}

\* Requests outside Varied are interchangeable: they arrive in index order.
MayArrive(r) ==
  /\ pc[r] = "new"
  /\ r \notin Varied => \A q \in Req \ Varied : q < r => pc[q] # "new"

Arrive(r) ==
  /\ MayArrive(r)
  /\ \E rt \in RoutesOf(r), q \in QueryOf(r) :
       /\ route' = [route EXCEPT ![r] = rt]
       /\ IF rt \in HtmlRoutes /\ q = Missing
          THEN /\ src' = [src EXCEPT ![r] = q]
               /\ resp' = [resp EXCEPT ![r] =
                             [status |-> 400, body |-> bodyOf(rt, 400),
                              message |-> "Missing src parameter",
                              size |-> <<>>, colors |-> <<>>]]
               /\ pc' = [pc EXCEPT ![r] = "done"]
               /\ log' = [log EXCEPT ![r] = Append(@, "respond")]
               /\ UNCHANGED <<current, queue, pushed>>
          ELSE /\ src' = [src EXCEPT ![r] = IF q = Missing THEN ExamplePng ELSE q]
               /\ acquire(r)
               /\ log' = [log EXCEPT ![r] =
                            IF current < MAX_CONCURRENT THEN Append(@, "acquire") ELSE @]
               /\ pushed' = IF current < MAX_CONCURRENT THEN pushed ELSE Append(pushed, r)
               /\ UNCHANGED resp
  /\ UNCHANGED <<jobs, browser, err, buf, fetched, pure>>

(***************************************************************************)
(* Pure parts of the pipeline.                                             *)
(***************************************************************************)
\* getImageMetadata without the MAX_IMAGE_PIXELS test.
getImageMetadataNoLimit(b) ==
  IF b.width = 0 \/ b.height = 0 THEN "Invalid image" ELSE "ok"

\* getImageMetadata(buffer): "ok" when it returns meta, else the message of
\* the error it throws.
getImageMetadata(b) ==
  IF b.width = 0 \/ b.height = 0 THEN "Invalid image"
  ELSE IF b.width * b.height > MAX_IMAGE_PIXELS THEN "Image too large"
  ELSE "ok"

\* Render functions that launch without calling validateHttpSrc.
preLaunchUnchecked(rt, s) ==
  IF rt = "/html" THEN [thrown |-> "ok", calls |-> <<>>]
  ELSE IF ~isUrl(s) THEN [thrown |-> "src must be a URL", calls |-> <<>>]
  ELSE [thrown |-> "ok", calls |-> <<>>]

\* What a render function does before puppeteer.launch: the calls it makes
\* and the message of the error thrown ("ok" when none).  /html calls
\* renderHtmlUrlToImageWithLinks, the other /html* routes renderHtmlFromSrc,
\* which calls renderHtmlUrlToImage.
preLaunch(rt, s) ==
  IF rt # "/html" /\ ~isUrl(s)
  THEN [thrown |-> "src must be a URL", calls |-> <<>>]
  ELSE [thrown |-> validateHttpSrc(s), calls |-> <<"validate">>]

\* The stages of a render between launch and close, in order.
PageStages(rt) ==
  IF rt = "/html"
  THEN <<"newPage", "setViewport", "goto", "evaluate", "screenshot">>
  ELSE <<"newPage", "setViewport", "goto", "screenshot">>

\* The errors the browser reports at a stage.
StageErrors(st) ==
  IF st = "goto"
  THEN {"Navigation timeout of 15000 ms exceeded", "net::ERR_CONNECTION_REFUSED"}
  ELSE {"Protocol error"}

(***************************************************************************)
(* The handlers after acquire(), one action per continuation.              *)
(***************************************************************************)
\* The handler goes on after `await imageSemaphore.acquire()`: the image
\* handlers call fetch(src), the html handlers validate src and launch.
Start(r) ==
  /\ pc[r] = "acquired"
  /\ IF route[r] \in ImageRoutes
     THEN /\ fetched' = fetched \cup {src[r]}
          /\ pc' = [pc EXCEPT ![r] = "fetch"]
          /\ log' = [log EXCEPT ![r] = Append(@, "fetch")]
          /\ UNCHANGED <<current, queue, jobs, browser, resp>>
     ELSE LET pre == preLaunch(route[r], src[r])
          IN  IF pre.thrown = "ok"
              THEN /\ browser' = [browser EXCEPT ![r] = "launching"]
                   /\ pc' = [pc EXCEPT ![r] = "launch"]
                   /\ log' = [log EXCEPT ![r] = @ \o pre.calls \o <<"launch">>]
                   /\ UNCHANGED <<current, queue, jobs, fetched, resp>>
              ELSE /\ Catch(r, pre.calls, pre.thrown)
                   /\ UNCHANGED <<browser, fetched>>
  /\ UNCHANGED <<route, src, err, buf, pushed, pure>>

\* fetchImageBuffer settles.  node-fetch rejects a src that is not an
\* absolute URL, and `.catch(() => null)` turns that into the fetch error.
FetchDone(r) ==
  /\ pc[r] = "fetch"
  /\ \/ /\ URL(src[r]).ok
        /\ pc' = [pc EXCEPT ![r] = "normalize"]
        /\ log' = [log EXCEPT ![r] = Append(@, "normalize")]
        /\ UNCHANGED <<current, queue, jobs, resp>>
     \/ Catch(r, <<>>, "Failed to fetch image")
  /\ UNCHANGED <<route, src, browser, err, buf, fetched, pushed, pure>>

\* The errors of normalizeImage and of normalizeHtmlImage.
NormalizeErrors(rt) ==
  IF rt \in ImageRoutes
  THEN {"Unknown file type", "Unsupported mime type: application/pdf",
        "Input buffer contains unsupported image format"}
  ELSE {"Input buffer contains unsupported image format"}

\* normalizeImage / normalizeHtmlImage settles.
NormalizeDone(r) ==
  /\ pc[r] = "normalize"
  /\ \/ \E b \in Buffers :
          /\ buf' = [buf EXCEPT ![r] = b]
          /\ IF route[r] \in MetadataRoutes
             THEN /\ pc' = [pc EXCEPT ![r] = "metadata"]
                  /\ log' = [log EXCEPT ![r] = Append(@, "metadata")]
                  /\ UNCHANGED <<current, queue, jobs, resp>>
             ELSE Respond(r, <<>>, 200, "png", <<>>, <<>>)
     \/ /\ \E e \in NormalizeErrors(route[r]) : Catch(r, <<>>, e)
        /\ UNCHANGED buf
  /\ UNCHANGED <<route, src, browser, err, fetched, pushed, pure>>

\* getImageMetadata settles.
MetadataDone(r) ==
  /\ pc[r] = "metadata"
  /\ IF getImageMetadata(buf[r]) # "ok"
     THEN Catch(r, <<>>, getImageMetadata(buf[r]))
     ELSE IF route[r] \in PixelRoutes
     THEN /\ pc' = [pc EXCEPT ![r] = "pixels"]
          /\ log' = [log EXCEPT ![r] = Append(@, "pixels")]
          /\ UNCHANGED <<current, queue, jobs, resp>>
     ELSE Respond(r, <<>>, 200, "", <<buf[r].width, buf[r].height>>, <<>>)
  /\ UNCHANGED <<route, src, browser, err, buf, fetched, pushed, pure>>

\* getImagePixels settles: size is [info.width, info.height] and colors has
\* info.width columns of info.height cells.
PixelsDone(r) ==
  /\ pc[r] = "pixels"
  /\ \/ Respond(r, <<>>, 200, "",
                IF route[r] = "/html/colors" THEN <<>>
                ELSE <<buf[r].width, buf[r].height>>,
                <<buf[r].width, buf[r].height>>)
     \/ Catch(r, <<>>, "Input buffer contains unsupported image format")
  /\ UNCHANGED <<route, src, browser, err, buf, fetched, pushed, pure>>

\* puppeteer.launch settles; on success the render calls browser.newPage().
LaunchDone(r) ==
  /\ pc[r] = "launch"
  /\ \/ /\ browser' = [browser EXCEPT ![r] = "open"]
        /\ pc' = [pc EXCEPT ![r] = "newPage"]
        /\ log' = [log EXCEPT ![r] = Append(@, "launched")]
        /\ UNCHANGED <<current, queue, jobs, resp>>
     \/ /\ browser' = [browser EXCEPT ![r] = "none"]
        /\ Catch(r, <<>>, "Failed to launch the browser process")
  /\ UNCHANGED <<route, src, err, buf, fetched, pushed, pure>>

\* A render whose page calls are not inside try/finally: an error leaves
\* the render at once.
PageStepLeak(r) ==
  /\ browser[r] = "open"
  /\ \E i \in 1..Len(PageStages(route[r])) :
       /\ pc[r] = PageStages(route[r])[i]
       /\ \/ /\ i < Len(PageStages(route[r]))
             /\ pc' = [pc EXCEPT ![r] = PageStages(route[r])[i + 1]]
             /\ log' = [log EXCEPT ![r] =
                          IF PageStages(route[r])[i + 1] = "goto"
                          THEN Append(@, "goto") ELSE @]
             /\ UNCHANGED <<current, queue, jobs, resp>>
          \/ /\ i = Len(PageStages(route[r]))
             /\ pc' = [pc EXCEPT ![r] = "close"]
             /\ log' = [log EXCEPT ![r] = Append(@, "close")]
             /\ UNCHANGED <<current, queue, jobs, resp>>
          \/ \E e \in StageErrors(pc[r]) : Catch(r, <<>>, e)
  /\ UNCHANGED <<route, src, browser, err, buf, fetched, pushed, pure>>

\* A page call settles: the render goes on to the next stage, and after the
\* last stage or on an error `finally` calls browser.close().
PageStep(r) ==
  /\ browser[r] = "open"
  /\ \E i \in 1..Len(PageStages(route[r])) :
       /\ pc[r] = PageStages(route[r])[i]
       /\ \/ /\ i < Len(PageStages(route[r]))
             /\ pc' = [pc EXCEPT ![r] = PageStages(route[r])[i + 1]]
             /\ log' = [log EXCEPT ![r] =
                          IF PageStages(route[r])[i + 1] = "goto"
                          THEN Append(@, "goto") ELSE @]
             /\ UNCHANGED err
          \/ /\ i = Len(PageStages(route[r]))
             /\ pc' = [pc EXCEPT ![r] = "close"]
             /\ log' = [log EXCEPT ![r] = Append(@, "close")]
             /\ UNCHANGED err
          \/ \E e \in StageErrors(pc[r]) :
               /\ err' = [err EXCEPT ![r] = e]
               /\ pc' = [pc EXCEPT ![r] = "close"]
               /\ log' = [log EXCEPT ![r] = Append(@, "close")]
  /\ UNCHANGED <<current, queue, jobs, route, src, browser, buf, resp, fetched, pushed, pure>>

\* browser.close() settles: the render returns or rethrows.
CloseDone(r) ==
  /\ pc[r] = "close"
  /\ browser' = [browser EXCEPT ![r] = "closed"]
  /\ IF err[r] # ""
     THEN Catch(r, <<>>, err[r])
     ELSE IF route[r] = "/html/converttopng"
     THEN Respond(r, <<>>, 200, "png", <<>>, <<>>)
     ELSE /\ pc' = [pc EXCEPT ![r] = "normalize"]
          /\ log' = [log EXCEPT ![r] = Append(@, "normalize")]
          /\ UNCHANGED <<current, queue, jobs, resp>>
  /\ UNCHANGED <<route, src, err, buf, fetched, pushed, pure>>

Next ==
  \/ \E r \in Req : Arrive(r)
  \/ Resume
  \/ \E r \in Req : Start(r)
  \/ \E r \in Req : FetchDone(r)
  \/ \E r \in Req : NormalizeDone(r)
  \/ \E r \in Req : MetadataDone(r)
  \/ \E r \in Req : PixelsDone(r)
  \/ \E r \in Req : LaunchDone(r)
  \/ \E r \in Req : PageStep(r)
  \/ \E r \in Req : CloseDone(r)

Init == InitServer /\ NoCall

Spec == Init /\ [][Next]_vars

\* Request r holds a slot of the gate: it completed acquire() and has not
\* yet called release().
Holding(r) == pc[r] \notin {"new", "queued", "done"}

\* The event loop runs every promise job that is ready, so a resumption of
\* acquire() that is pending is run; and every request that holds a slot
\* eventually calls release() (every awaited operation of a handler settles,
\* and `finally` releases).  Arrivals are not forced.
Fairness ==
  /\ WF_vars(Resume)
  /\ \A r \in Req : []<>(~Holding(r))

\* The server once GET /html?src=https://example.com/page has arrived as
\* request 1 and taken the first slot; the other requests are yet to come.
InitFair ==
  /\ current = 1
  /\ queue = <<>>
  /\ jobs = <<>>
  /\ pc = [r \in Req |-> IF r = 1 THEN "acquired" ELSE "new"]
  /\ route = [r \in Req |-> IF r = 1 THEN "/html" ELSE ""]
  /\ src = [r \in Req |-> IF r = 1 THEN PublicPage ELSE Missing]
  /\ browser = [r \in Req |-> "none"]
  /\ err = [r \in Req |-> ""]
  /\ buf = [r \in Req |-> NoBuf]
  /\ resp = [r \in Req |-> NoResp]
  /\ fetched = {}
  /\ log = [r \in Req |-> IF r = 1 THEN <<"acquire">> ELSE <<>>]
  /\ pushed = <<>>
  /\ NoCall

SpecFair == InitFair /\ [][Next]_vars /\ Fairness

(***************************************************************************)
(* Properties of the server.                                               *)
(***************************************************************************)
\* Number of occurrences of e in the sequence q.
Count(q, e) == Cardinality({i \in 1..Len(q) : q[i] = e})

\* Index of the first occurrence of e in q (0 when there is none).
Pos(q, e) == IF Count(q, e) = 0 THEN 0 ELSE Min({i \in 1..Len(q) : q[i] = e})

\* e occurs in q, and d occurs before its first occurrence.
Precedes(q, d, e) == Pos(q, e) > 0 => (Pos(q, d) > 0 /\ Pos(q, d) < Pos(q, e))

Quiescent == \A r \in Req : pc[r] \in {"new", "done"}

C2_FifoGrant ==
  [][\A a, b \in Req :
       (/\ pc[a] = "queued"
        /\ pc[b] = "queued"
        /\ Pos(pushed, a) < Pos(pushed, b))
       => pc'[b] = "queued"]_vars

\* C2 witness: two requests waited together; the first pushed has completed
\* acquire() and the second is still waiting.
C2_Witness ==
  \E a, b \in Req :
    /\ Pos(pushed, a) > 0
    /\ Pos(pushed, a) < Pos(pushed, b)
    /\ pc[a] = "acquired"
    /\ pc[b] = "queued"

\* C3: a handler that completed acquire() calls release() exactly once on
\* every exit path, and a handler that did not acquire never releases; once
\* every request that arrived has finished, current is 0 and nobody waits.
C3_ReleaseOnce ==
  /\ \A r \in Req :
       /\ Count(log[r], "release") <= Count(log[r], "acquire")
       /\ Count(log[r], "acquire") <= 1
       /\ pc[r] = "done" => Count(log[r], "release") = Count(log[r], "acquire")
       /\ pc[r] # "done" => Count(log[r], "release") = 0
  /\ Quiescent => (current = 0 /\ queue = <<>> /\ jobs = <<>>)

\* C3 witness: every request has finished, some of them had to wait for a
\* slot, and one left its pipeline through the catch block after a render
\* error.
C3_Witness ==
  /\ \A r \in Req : pc[r] = "done"
  /\ Len(pushed) >= 2
  /\ \E r \in Req : err[r] # "" /\ resp[r].status = 400 /\ Count(log[r], "release") = 1

\* C5: in the image handlers the host validator runs after acquire() and
\* before the fetch, so no target with a disallowed scheme or a forbidden
\* host is ever passed to fetch.
C5_ValidatedBeforeFetch ==
  \A r \in Req :
    (/\ route[r] \in ImageRoutes
     /\ validateHttpSrc(src[r]) \in {"Invalid protocol", "Forbidden host"}) =>
      /\ Precedes(log[r], "acquire", "validate")
      /\ Precedes(log[r], "validate", "fetch")
      /\ Count(log[r], "fetch") = 0
      /\ src[r] \notin fetched

\* C6: in the html handlers validation completes before a browser is
\* launched; when it fails, no browser is launched, nothing is navigated,
\* the answer is 400 and the slot is released.
C6_ValidatedBeforeLaunch ==
  \A r \in Req :
    route[r] \in HtmlRoutes =>
      /\ Precedes(log[r], "validate", "launch")
      /\ Pos(log[r], "launch") > 0 => validateHttpSrc(src[r]) = "ok"
      /\ (pc[r] = "done" /\ src[r] # Missing /\ validateHttpSrc(src[r]) # "ok") =>
           /\ browser[r] = "none"
           /\ Count(log[r], "launch") = 0
           /\ Count(log[r], "goto") = 0
           /\ resp[r].status = 400
           /\ Count(log[r], "release") = 1

\* C6 witness: an html request for a forbidden host acquired a slot, was
\* refused by the validator and has been answered.
C6_Witness ==
  \E r \in Req :
    /\ route[r] = "/html"
    /\ src[r] = LoopbackX
    /\ pc[r] = "done"
    /\ Pos(log[r], "validate") > 0
    /\ resp[r].message = "Forbidden host"

\* C7: a browser that was launched is closed exactly once on every exit
\* path of the render, and before the request's slot is released.
C7_BrowserClosedOnce ==
  \A r \in Req :
    /\ Count(log[r], "close") <= Count(log[r], "launched")
    /\ Count(log[r], "launched") <= 1
    /\ Precedes(log[r], "launched", "close")
    /\ (Pos(log[r], "launched") > 0 /\ Pos(log[r], "release") > 0) =>
         /\ Count(log[r], "close") = 1
         /\ Pos(log[r], "close") < Pos(log[r], "release")
         /\ browser[r] = "closed"
    /\ Pos(log[r], "release") > 0 => browser[r] \in {"none", "closed"}

\* C7 witness: a render failed at navigation after its browser was
\* launched, and the request has released its slot.
C7_Witness ==
  \E r \in Req :
    /\ err[r] = "Navigation timeout of 15000 ms exceeded"
    /\ Pos(log[r], "launched") > 0
    /\ Pos(log[r], "release") > 0
    /\ browser[r] = "closed"

\* C8: getImagePixels runs only on a buffer that the normalizer and then
\* the metadata guard accepted in the same request, so a pixel matrix in a
\* response has width*height <= 4,000,000, and a failed request carries no
\* pixel matrix.
C8_PixelsAfterGuard ==
  \A r \in Req :
    /\ Precedes(log[r], "normalize", "metadata")
    /\ Precedes(log[r], "metadata", "pixels")
    /\ Pos(log[r], "pixels") > 0 =>
         /\ buf[r].width > 0
         /\ buf[r].height > 0
         /\ buf[r].width * buf[r].height <= 4000000
    /\ resp[r].colors # <<>> =>
         /\ resp[r].status = 200
         /\ resp[r].colors = <<buf[r].width, buf[r].height>>
         /\ resp[r].colors[1] * resp[r].colors[2] <= 4000000
    /\ resp[r].status = 400 => resp[r].colors = <<>>

\* C8 witness: a success response carries a pixel matrix of exactly
\* 4,000,000 pixels.
C8_Witness ==
  \E r \in Req :
    /\ resp[r].status = 200
    /\ resp[r].colors = <<2000, 2000>>

\* The messages of the errors of the taxonomy, as the pipeline raises them.
TaxonomyErrors ==
  {"Invalid protocol", "Forbidden host", "Failed to fetch image",
   "Unknown file type", "Unsupported mime type: application/pdf",
   "Invalid image", "Image too large",
   "Navigation timeout of 15000 ms exceeded", "net::ERR_CONNECTION_REFUSED",
   "Missing src parameter"}

\* Errors of the collaborators that are outside the taxonomy.
InternalErrors ==
  {"Protocol error", "Failed to launch the browser process",
   "Input buffer contains unsupported image format"}

\* C11: a request whose pipeline raised an error outside the taxonomy is
\* answered with a generic 500 that does not carry the error's message; a
\* request whose pipeline raised a taxonomy error is answered with 400.
C11_UnexpectedErrorIs500 ==
  \A r \in Req :
    pc[r] = "done" =>
      /\ (\E e \in InternalErrors : Count(log[r], e) > 0) =>
           /\ resp[r].status = 500
           /\ resp[r].message \notin InternalErrors
      /\ (\E e \in TaxonomyErrors : Count(log[r], e) > 0) => resp[r].status = 400

\* C13: no lost wake-up.  Under fairness every request suspended in
\* acquire() is eventually resumed and completes acquire(); and no state has
\* a request waiting in the queue while current < max and no resumption is
\* pending.
C13_NoLostWakeup ==
  /\ \A r \in Req : (pc[r] = "queued") ~> (pc[r] = "acquired")
  /\ [](queue # <<>> => (current >= MAX_CONCURRENT \/ jobs # <<>>))

\* C13 witness: two requests were suspended in acquire(), both were resumed
\* and have finished, and nobody waits.
C13_Witness ==
  /\ Len(pushed) >= 2
  /\ \A i \in 1..Len(pushed) : pc[pushed[i]] = "done" /\ Count(log[pushed[i]], "acquire") = 1
  /\ queue = <<>>
  /\ jobs = <<>>

\* Request r has a heavy operation in progress: a browser launched (or being
\* launched) and not yet closed, or a fetch / decode pipeline started and
\* not yet finished.
Heavy(r) ==
  \/ browser[r] \in {"launching", "open"}
  \/ pc[r] \in {"fetch", "normalize", "metadata", "pixels"}

C12_MissingSrcRejected ==
  [][\A r \in Req :
       (pc[r] = "new" /\ pc'[r] # "new" /\ route'[r] \in HtmlRoutes /\ src'[r] = Missing) =>
         /\ pc'[r] = "done"
         /\ resp'[r].status = 400
         /\ resp'[r].body = "json"
         /\ resp'[r].message = "Missing src parameter"
         /\ UNCHANGED <<current, queue, jobs, pushed, browser>>
         /\ log'[r] = <<"respond">>]_vars

(***************************************************************************)
(* validateHttpSrc called on its own (src/index.js:283-299).  The targets   *)
(* are written scheme "://" host path, with a host that new URL() keeps as   *)
(* written but for the case of its letters.                                *)
(***************************************************************************)
TargetSchemes ==
  {<<"h", "t", "t", "p">>,
   <<"h", "t", "t", "p", "s">>,
   <<"H", "T", "T", "P">>,
   <<"f", "t", "p">>,
   <<"f", "i", "l", "e">>,
   <<"w", "s">>}

TargetHosts ==
  {<<"1", "2", "7", ".", "0", ".", "0", ".", "1">>,
   <<"1", "0", ".", "0", ".", "0", ".", "1">>,
   <<"1", "9", "2", ".", "1", "6", "8", ".", "1", ".", "5">>,
   <<"1", "6", "9", ".", "2", "5", "4", ".", "1", "6", "9", ".", "2", "5", "4">>,
   <<"l", "o", "c", "a", "l", "h", "o", "s", "t">>,
   <<"L", "O", "C", "A", "L", "H", "O", "S", "T">>,
   <<"e", "x", "a", "m", "p", "l", "e", ".", "c", "o", "m">>,
   <<"2", "1", "0", ".", "0", ".", "0", ".", "1">>,
   <<"1", "2", "7", "0", ".", "0", ".", "0", ".", "1">>,
   <<"1", "9", "2", ".", "1", "6", "9", ".", "1", ".", "5">>,
   <<"l", "o", "c", "a", "l", "h", "o", "s", "t", ".", "e", "x", "a", "m", "p", "l", "e", ".", "c", "o", "m">>,
   <<"1", "2", "7", ".", "e", "x", "a", "m", "p", "l", "e", ".", "c", "o", "m">>}

TargetPaths ==
  {<<>>,
   <<"/", "x">>,
   <<"/", "p", "a", "g", "e">>}

Targets == [scheme : TargetSchemes, host : TargetHosts, path : TargetPaths]

TargetText(tg) == tg.scheme \o <<":", "/", "/">> \o tg.host \o tg.path

InitValidate ==
  /\ InitServer
  /\ fn = "validateHttpSrc"
  /\ arg \in Targets
  /\ res = Pending

CallValidate ==
  /\ fn = "validateHttpSrc"
  /\ ~res.done
  /\ res' = Returned(validateHttpSrc(TargetText(arg)))
  /\ UNCHANGED <<server, fn, arg>>

NextValidate == CallValidate

SpecValidate == InitValidate /\ [][NextValidate]_vars

\* C4: validateHttpSrc fails with 'Invalid protocol' when the scheme is not
\* http or https, otherwise with 'Forbidden host' when the hostname starts
\* with 127., 10., 192.168. or 169.254. or is localhost, and accepts every
\* other target; it rejects ftp://example.com, http://127.0.0.1/x,
\* http://localhost/x and http://192.168.1.5/x and accepts
\* https://example.com/page.
C4_HostValidator ==
  (fn = "validateHttpSrc" /\ res.done) =>
    LET scheme == ToLower(arg.scheme)
        host   == ToLower(arg.host)
        text   == TargetText(arg)
        http   == scheme \in {<<"h", "t", "t", "p">>, <<"h", "t", "t", "p", "s">>}
        barred ==
          \/ StartsWith(host, <<"1", "2", "7", ".">>)
          \/ StartsWith(host, <<"1", "0", ".">>)
          \/ StartsWith(host, <<"1", "9", "2", ".", "1", "6", "8", ".">>)
          \/ StartsWith(host, <<"1", "6", "9", ".", "2", "5", "4", ".">>)
          \/ host = <<"l", "o", "c", "a", "l", "h", "o", "s", "t">>
    IN  /\ ~http => res.value = "Invalid protocol"
        /\ (http /\ barred) => res.value = "Forbidden host"
        /\ (http /\ ~barred) => res.value = "ok"
        /\ text = FtpExample => res.value = "Invalid protocol"
        /\ text = LoopbackX => res.value = "Forbidden host"
        /\ text = <<"h", "t", "t", "p", ":", "/", "/", "l", "o", "c", "a", "l", "h", "o", "s", "t", "/", "x">>
             => res.value = "Forbidden host"
        /\ text = <<"h", "t", "t", "p", ":", "/", "/", "1", "9", "2", ".", "1", "6", "8", ".", "1", ".", "5", "/", "x">>
             => res.value = "Forbidden host"
        /\ text = PublicPage => res.value = "ok"

\* C4 witness: the validator has refused http://192.168.1.5/x.
C4_Witness ==
  /\ fn = "validateHttpSrc"
  /\ TargetText(arg) = <<"h", "t", "t", "p", ":", "/", "/", "1", "9", "2", ".", "1", "6", "8", ".", "1", ".", "5", "/", "x">>
  /\ res.done
  /\ res.value = "Forbidden host"

(***************************************************************************)
(* Numbers.  The JavaScript numbers of collectLinks are modelled as exact   *)
(* fractions n/d in lowest terms (the rounding of IEEE doubles is not       *)
(* modelled); d = 0 stands for a value that is not a number: NaN, or        *)
(* undefined.                                                               *)
(***************************************************************************)
NaN == [n |-> 0, d |-> 0]

Undefined == [n |-> 1, d |-> 0]

IsNumber(a) == a.d > 0

Abs(i) == IF i < 0 THEN -i ELSE i

RECURSIVE GCD(_, _)
GCD(a, b) == IF b = 0 THEN a ELSE GCD(b, a % b)

Frac(n, d) ==
  IF d = 0 THEN NaN
  ELSE LET g == GCD(Abs(n), d) IN [n |-> n \div g, d |-> d \div g]

Num(i) == [n |-> i, d |-> 1]

Plus(a, b) ==
  IF IsNumber(a) /\ IsNumber(b) THEN Frac(a.n * b.d + b.n * a.d, a.d * b.d) ELSE NaN

Minus(a, b) ==
  IF IsNumber(a) /\ IsNumber(b) THEN Frac(a.n * b.d - b.n * a.d, a.d * b.d) ELSE NaN

Times(a, b) ==
  IF IsNumber(a) /\ IsNumber(b) THEN Frac(a.n * b.n, a.d * b.d) ELSE NaN

\* a / b for b > 0.
Over(a, b) ==
  IF IsNumber(a) /\ IsNumber(b) /\ b.n > 0 THEN Frac(a.n * b.d, a.d * b.n) ELSE NaN

\* a <= b; false when either is not a number.
Leq(a, b) == IsNumber(a) /\ IsNumber(b) /\ a.n * b.d <= b.n * a.d

\* Math.max(0, a)
Max0(a) ==
  IF ~IsNumber(a) THEN NaN
  ELSE IF a.n < 0 THEN Num(0)
  ELSE a

(***************************************************************************)
(* The frameset track resolver (src/index.js:200-222).                      *)
(***************************************************************************)
Digits == <<"0", "1", "2", "3", "4", "5", "6", "7", "8", "9">>

DigitSet == {Digits[i] : i \in 1..10}

DigitVal(c) == (CHOOSE i \in 1..10 : Digits[i] = c) - 1

\* The value of a sequence of digits.
RECURSIVE ToNat(_)
ToNat(s) ==
  IF Len(s) = 0 THEN 0
  ELSE ToNat(SubSeq(s, 1, Len(s) - 1)) * 10 + DigitVal(s[Len(s)])

\* The first index at or after i at which s has no digit.
RECURSIVE DigitsEnd(_, _)
DigitsEnd(s, i) ==
  IF i <= Len(s) /\ s[i] \in DigitSet THEN DigitsEnd(s, i + 1) ELSE i

RECURSIVE Pow10(_)
Pow10(k) == IF k = 0 THEN 1 ELSE 10 * Pow10(k - 1)

\* String.prototype.trim for blanks.
RECURSIVE trim(_)
trim(s) ==
  IF Len(s) > 0 /\ s[1] = " " THEN trim(Tail(s))
  ELSE IF Len(s) > 0 /\ s[Len(s)] = " " THEN trim(SubSeq(s, 1, Len(s) - 1))
  ELSE s

\* v.split(',')
RECURSIVE split(_)
split(v) ==
  LET comma == Find(v, ",", 1)
  IN  IF comma > Len(v) THEN <<v>>
      ELSE <<SubSeq(v, 1, comma - 1)>> \o split(SubSeq(v, comma + 1, Len(v)))

\* parse = (v) => v.split(',').map(s => s.trim())
parse(v) == LET parts == split(v) IN [i \in 1..Len(parts) |-> trim(parts[i])]

\* parseFloat(d): the longest prefix [+-] digits [. digits] of the trimmed
\* text, NaN when it holds no digit (exponents are not modelled).
parseFloat(d) ==
  LET s       == trim(d)
      signed  == Len(s) > 0 /\ s[1] \in {"+", "-"}
      from    == IF signed THEN 2 ELSE 1
      intEnd  == DigitsEnd(s, from)
      dotted  == intEnd <= Len(s) /\ s[intEnd] = "."
      fracEnd == IF dotted THEN DigitsEnd(s, intEnd + 1) ELSE intEnd
      ipart   == SubSeq(s, from, intEnd - 1)
      fpart   == IF dotted THEN SubSeq(s, intEnd + 1, fracEnd - 1) ELSE <<>>
      mag     == Frac(ToNat(ipart) * Pow10(Len(fpart)) + ToNat(fpart), Pow10(Len(fpart)))
  IN  IF Len(ipart) = 0 /\ Len(fpart) = 0 THEN NaN
      ELSE IF signed /\ s[1] = "-" THEN Minus(Num(0), mag)
      ELSE mag

\* d.endsWith('%')
endsWithPercent(d) == Len(d) > 0 /\ d[Len(d)] = "%"

\* /^\d+$/.test(d)
allDigits(d) == Len(d) > 0 /\ \A i \in 1..Len(d) : d[i] \in DigitSet

\* The track {t, v} of one token.
track(d) ==
  IF endsWithPercent(d) THEN [t |-> "%", v |-> parseFloat(d)]
  ELSE IF d = <<"*">> THEN [t |-> "*", v |-> Num(1)]
  ELSE IF allDigits(d) THEN [t |-> "px", v |-> Num(ToNat(d))]
  ELSE [t |-> "*", v |-> Num(1)]

\* The sum of a sequence of numbers, left to right from 0.
RECURSIVE Sum(_)
Sum(q) ==
  IF Len(q) = 0 THEN Num(0)
  ELSE Plus(Sum(SubSeq(q, 1, Len(q) - 1)), q[Len(q)])

\* resolve with `remain = total - fixed`, without Math.max(0, ...).
resolveUnclamped(defs, total) ==
  LET parsed == [i \in 1..Len(defs) |-> track(defs[i])]
      fixed  == Sum([i \in 1..Len(defs) |->
                       IF parsed[i].t = "px" THEN parsed[i].v
                       ELSE IF parsed[i].t = "%"
                            THEN Over(Times(total, parsed[i].v), Num(100))
                       ELSE Num(0)])
      stars  == Sum([i \in 1..Len(defs) |->
                       IF parsed[i].t = "*" THEN parsed[i].v ELSE Num(0)])
      remain == Minus(total, fixed)
  IN  [i \in 1..Len(defs) |->
         IF parsed[i].t = "px" THEN parsed[i].v
         ELSE IF parsed[i].t = "%" THEN Over(Times(total, parsed[i].v), Num(100))
         ELSE Over(Times(remain, parsed[i].v), stars)]

\* resolve = (defs, total) => ...
resolve(defs, total) ==
  LET parsed == [i \in 1..Len(defs) |-> track(defs[i])]
      fixed  == Sum([i \in 1..Len(defs) |->
                       IF parsed[i].t = "px" THEN parsed[i].v
                       ELSE IF parsed[i].t = "%"
                            THEN Over(Times(total, parsed[i].v), Num(100))
                       ELSE Num(0)])
      stars  == Sum([i \in 1..Len(defs) |->
                       IF parsed[i].t = "*" THEN parsed[i].v ELSE Num(0)])
      remain == Max0(Minus(total, fixed))
  IN  [i \in 1..Len(defs) |->
         IF parsed[i].t = "px" THEN parsed[i].v
         ELSE IF parsed[i].t = "%" THEN Over(Times(total, parsed[i].v), Num(100))
         ELSE Over(Times(remain, parsed[i].v), stars)]

(***************************************************************************)
(* resolve called on its own: resolve(parse(spec), total) for the cols or   *)
(* rows attribute of a frameset and a total in pixels.                      *)
(***************************************************************************)
TrackSpecs ==
  {<<"*", ",", "*">>,
   <<"1", "0", "0", ",", "*">>,
   <<"5", "0", "%", ",", "*">>,
   <<"2", "0", "0", "0", ",", "*">>,
   <<"1", "5", "0", "%", ",", "*">>,
   <<"-", "5", "0", "%", ",", "*">>,
   <<"x", "%", ",", "*">>,
   <<" ", "2", "5", "%", " ", ",", " ", "3", "*", " ", ",", "1", "0", "0">>,
   <<"1", "0", "0", ",", "2", "0", "0">>,
   <<"*">>,
   <<"1", "2", ".", "5", "%", ",", "*">>,
   <<"5", "0", "%", ",", "5", "0", "%">>,
   <<"8", "0", "0", ",", "8", "0", "0">>,
   <<"*", ",", "1", "0", "0", ",", "*">>,
   <<>>}

\* The totals of the model go up to MaxTotal hundreds of pixels; 720 and
\* 1280 are the viewport the render functions set.
MaxTotal == 3

TrackTotals == {100 * k : k \in 1..MaxTotal} \cup {720, 1280}

InitTracks ==
  /\ InitServer
  /\ fn = "resolve"
  /\ arg \in [defs : TrackSpecs, total : TrackTotals]
  /\ res = Pending

CallResolve ==
  /\ fn = "resolve"
  /\ ~res.done
  /\ res' = Returned(resolve(parse(arg.defs), Num(arg.total)))
  /\ UNCHANGED <<server, fn, arg>>

NextTracks == CallResolve

SpecTracks == InitTracks /\ [][NextTracks]_vars

\* C9: for any comma-separated track spec and any total, the resolved sizes
\* are in token order (one per token), each non-negative, and sum to at most
\* total.
C9_TracksWithinTotal ==
  (fn = "resolve" /\ res.done) =>
    /\ Len(res.value) = Count(arg.defs, ",") + 1
    /\ \A i \in 1..Len(res.value) : Leq(Num(0), res.value[i])
    /\ Leq(Sum(res.value), Num(arg.total))

\* C14: a digits-only token resolves to its value, a token ending in % to
\* total*value/100, and every other token to remaining/(number of such
\* tokens), with remaining = max(0, total - fixed and percentage
\* contributions); when there is such a token and the contributions do not
\* exceed total the sizes sum to exactly total; "*,*" at 100 gives [50,50],
\* "100,*" at 300 gives [100,200] and "50%,*" at 200 gives [100,100].
C14_ResolveFormula ==
  (fn = "resolve" /\ res.done) =>
    LET defs      == parse(arg.defs)
        total     == Num(arg.total)
        share(i)  == IF endsWithPercent(defs[i])
                     THEN Over(Times(total, parseFloat(defs[i])), Num(100))
                     ELSE IF allDigits(defs[i]) THEN Num(ToNat(defs[i]))
                     ELSE Num(0)
        free      == {i \in 1..Len(defs) : ~endsWithPercent(defs[i]) /\ ~allDigits(defs[i])}
        budget    == Sum([i \in 1..Len(defs) |-> share(i)])
        remaining == Max0(Minus(total, budget))
    IN  /\ Len(res.value) = Len(defs)
        /\ \A i \in 1..Len(defs) :
             res.value[i] = IF i \in free
                            THEN Over(remaining, Num(Cardinality(free)))
                            ELSE share(i)
        /\ (free # {} /\ Leq(budget, total)) => Sum(res.value) = total
        /\ (arg.defs = <<"*", ",", "*">> /\ arg.total = 100) =>
             res.value = <<Num(50), Num(50)>>
        /\ (arg.defs = <<"1", "0", "0", ",", "*">> /\ arg.total = 300) =>
             res.value = <<Num(100), Num(200)>>
        /\ (arg.defs = <<"5", "0", "%", ",", "*">> /\ arg.total = 200) =>
             res.value = <<Num(100), Num(100)>>

\* C14 witness: "50%,*" was resolved against 200 and gave [100, 100].
C14_Witness ==
  /\ fn = "resolve"
  /\ res.done
  /\ arg.defs = <<"5", "0", "%", ",", "*">>
  /\ arg.total = 200
  /\ res.value = <<Num(100), Num(100)>>

(***************************************************************************)
(* collectLinks (src/index.js:133-281), evaluated in the rendered page.     *)
(*                                                                         *)
(* A document is [ok, all]: all is querySelectorAll('*') in document order, *)
(* and ok is FALSE for the null that contentDocument yields for a document  *)
(* of another origin.  An element is a record                              *)
(*   tag, parent   tagName and the index in all of its parent (0: none)     *)
(*   href, onclick, role, cursor   what isClickable reads                   *)
(*   rect          getBoundingClientRect(): left, top, width, height        *)
(*   src, cols, rows   attributes of iframe / frame / frameset ("": none)    *)
(*   content       contentDocument of an iframe or frame                    *)
(* A region is [tag, href, x, y, width, height].                            *)
(***************************************************************************)
\* window.innerWidth and window.innerHeight: the viewport set by
\* page.setViewport (src/index.js:353-357).
innerWidth == 1280

innerHeight == 720

NoDoc == [ok |-> FALSE, all |-> <<>>]

isClickable(el) ==
  \/ el.tag = "A" /\ el.href # ""
  \/ el.tag = "AREA" /\ el.href # ""
  \/ el.tag = "BUTTON"
  \/ el.onclick
  \/ el.role = "button"
  \/ el.cursor = "pointer"

\* el.href ?? null
hrefOrNull(el) == IF el.tag \in {"A", "AREA"} THEN el.href ELSE "null"

\* a[i] of a JavaScript array, for i counted from 1.
At(a, i) == IF i <= Len(a) THEN a[i] ELSE Undefined

\* The indices in doc.all of the children of element p, in document order.
RECURSIVE ChildrenFrom(_, _, _)
ChildrenFrom(doc, p, i) ==
  IF i > Len(doc.all) THEN <<>>
  ELSE (IF doc.all[i].parent = p THEN <<i>> ELSE <<>>) \o ChildrenFrom(doc, p, i + 1)

\* doc.querySelector('frameset'): the index of the first frameset, or 0.
FirstFrameset(doc) ==
  IF \E i \in 1..Len(doc.all) : doc.all[i].tag = "FRAMESET"
  THEN Min({i \in 1..Len(doc.all) : doc.all[i].tag = "FRAMESET"})
  ELSE 0

RECURSIVE collectFromDocument(_, _, _)
RECURSIVE ElementLoop(_, _, _, _)
RECURSIVE FrameLoop(_, _, _, _)
RECURSIVE ColsLoop(_, _, _, _, _, _)
RECURSIVE RowsLoop(_, _, _, _, _, _)

\* for (const el of doc.querySelectorAll('*')), from the i-th element on.
ElementLoop(doc, i, offsetX, offsetY) ==
  IF i > Len(doc.all) THEN <<>>
  ELSE LET el == doc.all[i]
       IN  (IF isClickable(el) /\ el.rect.width # 0 /\ el.rect.height # 0
            THEN <<[tag |-> el.tag, href |-> hrefOrNull(el),
                    x |-> Plus(Num(el.rect.left), offsetX),
                    y |-> Plus(Num(el.rect.top), offsetY),
                    width |-> Num(el.rect.width),
                    height |-> Num(el.rect.height)]>>
            ELSE <<>>)
           \o ElementLoop(doc, i + 1, offsetX, offsetY)

\* The iframe / frame loop recursing with the offset of the parent document
\* instead of ox, oy.
RECURSIVE FrameLoopNoOffset(_, _, _, _)
FrameLoopNoOffset(doc, i, offsetX, offsetY) ==
  IF i > Len(doc.all) THEN <<>>
  ELSE LET frameEl == doc.all[i]
           ox == Plus(offsetX, Num(frameEl.rect.left))
           oy == Plus(offsetY, Num(frameEl.rect.top))
       IN  (IF frameEl.tag \notin {"IFRAME", "FRAME"} THEN <<>>
            ELSE IF frameEl.content.ok
                 THEN collectFromDocument(frameEl.content, offsetX, offsetY)
            ELSE IF frameEl.src # ""
                 THEN <<[tag |-> "frame", href |-> frameEl.src,
                         x |-> ox, y |-> oy,
                         width |-> Num(frameEl.rect.width),
                         height |-> Num(frameEl.rect.height)]>>
            ELSE <<>>)
           \o FrameLoopNoOffset(doc, i + 1, offsetX, offsetY)

\* for (const frameEl of doc.querySelectorAll('iframe, frame')), from the
\* i-th element on.
FrameLoop(doc, i, offsetX, offsetY) ==
  IF i > Len(doc.all) THEN <<>>
  ELSE LET frameEl == doc.all[i]
           ox == Plus(offsetX, Num(frameEl.rect.left))
           oy == Plus(offsetY, Num(frameEl.rect.top))
       IN  (IF frameEl.tag \notin {"IFRAME", "FRAME"} THEN <<>>
            ELSE IF frameEl.content.ok
                 THEN collectFromDocument(frameEl.content, ox, oy)
            ELSE IF frameEl.src # ""
                 THEN <<[tag |-> "frame", href |-> frameEl.src,
                         x |-> ox, y |-> oy,
                         width |-> Num(frameEl.rect.width),
                         height |-> Num(frameEl.rect.height)]>>
            ELSE <<>>)
           \o FrameLoop(doc, i + 1, offsetX, offsetY)

\* if (fs.cols): children.forEach from the k-th child on, at abscissa x.
\* A child without a document makes collectFromDocument throw at once, and
\* the catch block pushes the fallback region.
ColsLoop(doc, kids, k, x, y, widths) ==
  IF k > Len(kids) THEN <<>>
  ELSE LET frame == doc.all[kids[k]]
       IN  (IF frame.content.ok THEN collectFromDocument(frame.content, x, y)
            ELSE IF frame.src # ""
                 THEN <<[tag |-> "frame", href |-> frame.src,
                         x |-> x, y |-> y,
                         width |-> At(widths, k),
                         height |-> Num(innerHeight)]>>
            ELSE <<>>)
           \o ColsLoop(doc, kids, k + 1, Plus(x, At(widths, k)), y, widths)

\* if (fs.rows): children.forEach from the k-th child on, at ordinate y.
RowsLoop(doc, kids, k, x, y, heights) ==
  IF k > Len(kids) THEN <<>>
  ELSE LET frame == doc.all[kids[k]]
       IN  (IF frame.content.ok THEN collectFromDocument(frame.content, x, y)
            ELSE IF frame.src # ""
                 THEN <<[tag |-> "frame", href |-> frame.src,
                         x |-> x, y |-> y,
                         width |-> Num(innerWidth),
                         height |-> At(heights, k)]>>
            ELSE <<>>)
           \o RowsLoop(doc, kids, k + 1, x, Plus(y, At(heights, k)), heights)

\* The frameset part of collectFromDocument.
FramesetPart(doc, offsetX, offsetY) ==
  LET fs == FirstFrameset(doc)
  IN  IF fs = 0 THEN <<>>
      ELSE LET kids == ChildrenFrom(doc, fs, 1)
               el   == doc.all[fs]
           IN  (IF el.cols # <<>>
                THEN ColsLoop(doc, kids, 1, offsetX, offsetY,
                              resolve(parse(el.cols), Num(innerWidth)))
                ELSE <<>>)
               \o
               (IF el.rows # <<>>
                THEN RowsLoop(doc, kids, 1, offsetX, offsetY,
                              resolve(parse(el.rows), Num(innerHeight)))
                ELSE <<>>)

\* The regions collectFromDocument(doc, offsetX, offsetY) pushes, in order.
collectFromDocument(doc, offsetX, offsetY) ==
  ElementLoop(doc, 1, offsetX, offsetY)
    \o FrameLoop(doc, 1, offsetX, offsetY)
    \o FramesetPart(doc, offsetX, offsetY)

\* collectLinks() in a window showing document with the given scroll offset.
collectLinks(document, scrollX, scrollY) ==
  collectFromDocument(document, Num(scrollX), Num(scrollY))

(***************************************************************************)
(* collectLinks called on its own, on the documents below.  Every frame and *)
(* iframe of a document has its own src, so that a region tagged `frame` is *)
(* traced to its element by its href.                                       *)
(***************************************************************************)
Rect(l, t, w, h) == [left |-> l, top |-> t, width |-> w, height |-> h]

Element(tag, href, onclick, cursor, rect) ==
  [tag |-> tag, parent |-> 0, href |-> href, onclick |-> onclick, role |-> "",
   cursor |-> cursor, rect |-> rect, src |-> "", cols |-> <<>>, rows |-> <<>>,
   content |-> NoDoc]

Iframe(url, rect, content) ==
  [Element("IFRAME", "", FALSE, "auto", rect) EXCEPT !.src = url, !.content = content]

Frame(parent, url, rect, content) ==
  [Element("FRAME", "", FALSE, "auto", rect) EXCEPT
     !.parent = parent, !.src = url, !.content = content]

Frameset(cols, rows) ==
  [Element("FRAMESET", "", FALSE, "auto", Rect(0, 0, innerWidth, innerHeight)) EXCEPT
     !.cols = cols, !.rows = rows]

Doc(all) == [ok |-> TRUE, all |-> all]

\* Elements of a body: links, elements that are not clickable or not shown.
ElementLists ==
  {<<>>,
   <<Element("A", "https://a.example/", FALSE, "pointer", Rect(10, 20, 100, 30))>>,
   <<Element("DIV", "", FALSE, "auto", Rect(0, 0, 800, 600)),
     Element("BUTTON", "", FALSE, "auto", Rect(30, 40, 0, 0)),
     Element("DIV", "", TRUE, "auto", Rect(5, 5, 50, 50))>>}

\* An iframe of another origin, a second one, an iframe without src whose
\* document has an opaque origin (sandboxed srcdoc), and an iframe of another
\* origin that is laid out with an empty box (width="0" height="0").
CrossOriginA == Iframe("https://other.example/a", Rect(50, 60, 300, 200), NoDoc)

CrossOriginB == Iframe("https://other.example/b", Rect(400, 60, 300, 200), NoDoc)

SandboxedSrcdoc == Iframe("", Rect(50, 300, 300, 100), NoDoc)

HiddenCrossOrigin == Iframe("https://other.example/hidden", Rect(0, 0, 0, 0), NoDoc)

IframeLists ==
  {<<>>, <<CrossOriginA>>, <<SandboxedSrcdoc>>, <<CrossOriginA, CrossOriginB>>,
   <<HiddenCrossOrigin>>}

InnerDocs == {Doc(e \o f) : e \in ElementLists, f \in IframeLists}

\* A document that shows an inner document in a same-origin iframe.
NestingDocs ==
  {Doc(<<Element("A", "https://top.example/", FALSE, "pointer", Rect(0, 0, 80, 20)),
         Iframe("https://site.example/inner", Rect(100, 100, 600, 400), d)>>) :
     d \in InnerDocs}

\* cols, rows and the boxes of the two frames the browser lays out for them.
FramesetLayouts ==
  {[cols |-> <<"*", ",", "*">>, rows |-> <<>>,
    first |-> Rect(0, 0, 640, 720), second |-> Rect(640, 0, 640, 720)],
   [cols |-> <<>>, rows |-> <<"5", "0", "%", ",", "*">>,
    first |-> Rect(0, 0, 1280, 360), second |-> Rect(0, 360, 1280, 360)],
   [cols |-> <<"*", ",", "*">>, rows |-> <<"*">>,
    first |-> Rect(0, 0, 640, 720), second |-> Rect(640, 0, 640, 720)]}

\* A frameset page: a same-origin frame showing an inner document, and a
\* frame of another origin.
FramesetDocs ==
  {Doc(<<Frameset(l.cols, l.rows),
         Frame(1, "https://site.example/left", l.first, d),
         Frame(1, "https://other.example/right", l.second, NoDoc)>>) :
     l \in FramesetLayouts, d \in InnerDocs}

\* A document that shows a nesting document in a same-origin iframe: its
\* inner elements are two iframes deep.
DeepDocs ==
  {Doc(<<Iframe("https://site.example/outer", Rect(20, 30, 1000, 600), d)>>) :
     d \in NestingDocs}

Documents == InnerDocs \cup NestingDocs \cup DeepDocs \cup FramesetDocs

\* window.scrollY ranges over 0, 40, ..., 40 * MaxScroll.
MaxScroll == 1

InitCollect ==
  /\ InitServer
  /\ fn = "collectLinks"
  /\ arg \in [document : Documents, scrollX : {0}, scrollY : {40 * k : k \in 0..MaxScroll}]
  /\ res = Pending

CallCollect ==
  /\ fn = "collectLinks"
  /\ ~res.done
  /\ res' = Returned(collectLinks(arg.document, arg.scrollX, arg.scrollY))
  /\ UNCHANGED <<server, fn, arg>>

NextCollect == CallCollect

SpecCollect == InitCollect /\ [][NextCollect]_vars

\* The iframes without an accessible document that are shown in doc or in a
\* document nested in it, each with its src and with the offset accumulated
\* down to its document plus its own left and top.
RECURSIVE InaccessibleIframes(_, _, _, _)
InaccessibleIframes(doc, i, offsetX, offsetY) ==
  IF i > Len(doc.all) THEN <<>>
  ELSE LET el == doc.all[i]
           ox == Plus(offsetX, Num(el.rect.left))
           oy == Plus(offsetY, Num(el.rect.top))
       IN  (IF el.tag \in {"IFRAME", "FRAME"} /\ el.content.ok
            THEN InaccessibleIframes(el.content, 1, ox, oy)
            ELSE IF el.tag = "IFRAME"
                 THEN <<[src |-> el.src, x |-> ox, y |-> oy]>>
            ELSE <<>>)
           \o InaccessibleIframes(doc, i + 1, offsetX, offsetY)

\* C10: for an iframe whose document is inaccessible the collector emits
\* exactly one region tagged `frame`, whose href is the iframe's src and
\* whose position is the accumulated offset plus the iframe's left and top;
\* the call returns, and the clickable elements of the document are still
\* collected.
C10_CrossOriginFallback ==
  (fn = "collectLinks" /\ res.done) =>
    LET regions  == res.value
        expected == InaccessibleIframes(arg.document, 1, Num(arg.scrollX), Num(arg.scrollY))
        top      == arg.document.all
    IN  /\ \A k \in 1..Len(expected) :
             LET hits == {i \in 1..Len(regions) :
                            regions[i].tag = "frame" /\ regions[i].href = expected[k].src}
             IN  /\ Cardinality(hits) = 1
                 /\ \A i \in hits :
                      regions[i].x = expected[k].x /\ regions[i].y = expected[k].y
        /\ \A j \in 1..Len(top) :
             (isClickable(top[j]) /\ top[j].rect.width # 0 /\ top[j].rect.height # 0) =>
               \E i \in 1..Len(regions) :
                 /\ regions[i].tag = top[j].tag
                 /\ regions[i].x = Plus(Num(top[j].rect.left), Num(arg.scrollX))
                 /\ regions[i].y = Plus(Num(top[j].rect.top), Num(arg.scrollY))

\* C15: every region of the result, the `frame` fallback regions included,
\* has a width and a height that are numbers greater than 0.
C15_RegionsHaveArea ==
  (fn = "collectLinks" /\ res.done) =>
    \A i \in 1..Len(res.value) :
      /\ IsNumber(res.value[i].width) /\ res.value[i].width.n > 0
      /\ IsNumber(res.value[i].height) /\ res.value[i].height.n > 0

\* The clickable elements with a non-empty box that are shown in doc or in a
\* document reached from it through accessible iframes, each with its own
\* left and top added to the left and top of every iframe above it and to
\* the offset of the top document.
RECURSIVE NestedClickables(_, _, _, _)
NestedClickables(doc, i, offsetX, offsetY) ==
  IF i > Len(doc.all) THEN <<>>
  ELSE LET el == doc.all[i]
       IN  (IF el.tag = "IFRAME" /\ el.content.ok
            THEN NestedClickables(el.content, 1,
                                  Plus(offsetX, Num(el.rect.left)),
                                  Plus(offsetY, Num(el.rect.top)))
            ELSE IF isClickable(el) /\ el.rect.width # 0 /\ el.rect.height # 0
                 THEN <<[tag |-> el.tag, href |-> hrefOrNull(el),
                         x |-> Plus(offsetX, Num(el.rect.left)),
                         y |-> Plus(offsetY, Num(el.rect.top)),
                         width |-> Num(el.rect.width),
                         height |-> Num(el.rect.height)]>>
            ELSE <<>>)
           \o NestedClickables(doc, i + 1, offsetX, offsetY)

\* C16: a clickable element nested at any depth inside accessible iframes
\* gives a region whose x and y are the element's left and top plus the left
\* and top of every iframe above it plus scrollX and scrollY, and whose width
\* and height are the element's own.
C16_NestedOffsets ==
  (fn = "collectLinks" /\ res.done) =>
    LET expected == NestedClickables(arg.document, 1, Num(arg.scrollX), Num(arg.scrollY))
    IN  \A k \in 1..Len(expected) :
          LET same == {i \in 1..Len(res.value) :
                         /\ res.value[i].tag = expected[k].tag
                         /\ res.value[i].href = expected[k].href
                         /\ res.value[i].width = expected[k].width
                         /\ res.value[i].height = expected[k].height}
          IN  /\ same # {}
              /\ \A i \in same : res.value[i] = expected[k]

\* C16 witness: a link two iframes deep, in a window scrolled by 40, was
\* collected at (10 + 100 + 20, 20 + 100 + 30 + 40).
C16_Witness ==
  /\ fn = "collectLinks"
  /\ res.done
  /\ arg.document \in DeepDocs
  /\ arg.scrollY = 40
  /\ \E i \in 1..Len(res.value) :
       /\ res.value[i].tag = "A"
       /\ res.value[i].href = "https://a.example/"
       /\ res.value[i].x = Num(130)
       /\ res.value[i].y = Num(190)
       /\ res.value[i].width = Num(100)
       /\ res.value[i].height = Num(30)

\* C18: in a document with a frameset every child frame's document is
\* traversed once: no element or frame is reported by two regions, and the
\* inaccessible child frame is reported by exactly one `frame` region.
C18_FramesTraversedOnce ==
  (fn = "collectLinks" /\ res.done /\ FirstFrameset(arg.document) # 0) =>
    LET regions == res.value
        doc     == arg.document
    IN  /\ \A i, j \in 1..Len(regions) :
             (regions[i].tag = regions[j].tag /\ regions[i].href = regions[j].href) => i = j
        /\ \A k \in 1..Len(doc.all) :
             (doc.all[k].tag = "FRAME" /\ ~doc.all[k].content.ok /\ doc.all[k].src # "") =>
               Cardinality({i \in 1..Len(regions) :
                              regions[i].tag = "frame" /\ regions[i].href = doc.all[k].src}) = 1

(***************************************************************************)
(* getImagePixels (src/index.js:100-131) after sharp has decoded the        *)
(* buffer: data is the raw RGBA buffer, row-major, 4 bytes per pixel, and   *)
(* info holds its width and height.  JavaScript indices count from 0, the  *)
(* sequences of the model from 1.  Besides size and colors the model keeps  *)
(* `visited`, the (x, y) of the assignments the loop made, in order.        *)
(***************************************************************************)
\* data[i]
byteAt(data, i) == IF i + 1 <= Len(data) THEN data[i + 1] ELSE -1

\* The loop advancing i by 3 for each pixel.
RECURSIVE pixelLoopStride3(_, _, _, _, _, _, _)
pixelLoopStride3(data, width, height, y, x, i, out) ==
  IF y >= height THEN out
  ELSE IF x >= width THEN pixelLoopStride3(data, width, height, y + 1, 0, i, out)
  ELSE pixelLoopStride3(data, width, height, y, x + 1, i + 3,
         [colors  |-> [out.colors EXCEPT ![x + 1][y + 1] =
                         <<byteAt(data, i), byteAt(data, i + 1),
                           byteAt(data, i + 2), byteAt(data, i + 3)>>],
          visited |-> Append(out.visited, <<x, y>>)])

\* for (let y = 0; y < height; y++) for (let x = 0; x < width; x++) { ... },
\* from (x, y) on with the running offset i.
RECURSIVE pixelLoop(_, _, _, _, _, _, _)
pixelLoop(data, width, height, y, x, i, out) ==
  IF y >= height THEN out
  ELSE IF x >= width THEN pixelLoop(data, width, height, y + 1, 0, i, out)
  ELSE pixelLoop(data, width, height, y, x + 1, i + 4,
         [colors  |-> [out.colors EXCEPT ![x + 1][y + 1] =
                         <<byteAt(data, i), byteAt(data, i + 1),
                           byteAt(data, i + 2), byteAt(data, i + 3)>>],
          visited |-> Append(out.visited, <<x, y>>)])

\* getImagePixels, from the { data, info } sharp resolves with.
getImagePixels(data, info) ==
  LET width  == info.width
      height == info.height
      colors == [x \in 1..width |-> [y \in 1..height |-> <<>>]]
      out    == pixelLoop(data, width, height, 0, 0, 0,
                          [colors |-> colors, visited |-> <<>>])
  IN  [size |-> <<width, height>>, colors |-> out.colors, visited |-> out.visited]

\* Raw buffers: width and height up to MaxDim, and bytes (a * k + b) % 256
\* at offset k.
MaxDim == 3

BytePatterns ==
  {[a |-> 1, b |-> 0], [a |-> 7, b |-> 3], [a |-> 0, b |-> 255],
   [a |-> 37, b |-> 200], [a |-> 255, b |-> 1], [a |-> 128, b |-> 0],
   [a |-> 3, b |-> 5]}

RawData(width, height, p) == [k \in 1..(4 * width * height) |-> (p.a * (k - 1) + p.b) % 256]

RawBuffers ==
  {[data |-> RawData(w, h, p), info |-> [width |-> w, height |-> h]] :
     w \in 1..MaxDim, h \in 1..MaxDim, p \in BytePatterns}

InitPixels ==
  /\ InitServer
  /\ fn = "getImagePixels"
  /\ arg \in RawBuffers
  /\ res = Pending

CallPixels ==
  /\ fn = "getImagePixels"
  /\ ~res.done
  /\ res' = Returned(getImagePixels(arg.data, arg.info))
  /\ UNCHANGED <<server, fn, arg>>

NextPixels == CallPixels

SpecPixels == InitPixels /\ [][NextPixels]_vars

\* C17: getImagePixels assigns each of the width*height pixels exactly once
\* and returns size [width, height] and a matrix of `width` columns of
\* `height` cells, where colors[x][y] holds the 4 bytes at offsets
\* 4*(y*width + x) .. 4*(y*width + x) + 3 of the raw buffer, so that the
\* matrix is determined by the bytes and the dimensions alone.
C17_PixelMatrix ==
  (fn = "getImagePixels" /\ res.done) =>
    LET width  == arg.info.width
        height == arg.info.height
        out    == res.value
    IN  /\ out.size = <<width, height>>
        /\ DOMAIN out.colors = 1..width
        /\ \A x \in 0..(width - 1) :
             /\ DOMAIN out.colors[x + 1] = 1..height
             /\ \A y \in 0..(height - 1) :
                  /\ out.colors[x + 1][y + 1] =
                       [c \in 1..4 |-> arg.data[4 * (y * width + x) + c]]
                  /\ Cardinality({k \in 1..Len(out.visited) : out.visited[k] = <<x, y>>}) = 1
        /\ Len(out.visited) = width * height

\* C17 witness: a 2 x 3 buffer with bytes 0, 1, 2, ... was read: the pixel
\* at x = 1, y = 2 holds the bytes 20..23.
C17_Witness ==
  /\ fn = "getImagePixels"
  /\ res.done
  /\ arg.info = [width |-> 2, height |-> 3]
  /\ res.value.size = <<2, 3>>
  /\ res.value.colors[2][3] = <<20, 21, 22, 23>>

=============================================================================
